---- MODULE Spec2Model ----
(***************************************************************************)
(* Weather dashboard: the synthetic-year generator (data_generator.py),    *)
(* the aggregation queries (data_processor.py) and the Streamlit script    *)
(* (app.py) that keeps the dataset in session state and re-runs on every   *)
(* widget interaction.                                                     *)
(*                                                                         *)
(* Numbers.  Timestamps are day ordinals counted from 2024-01-01 = 1, and  *)
(* the calendar accessors (.dt.month, ...) are computed from the ordinal.  *)
(* Temperature is in whole degrees C, humidity in whole percent, rainfall  *)
(* in tenths of a millimetre, means are kept as exact fractions            *)
(* [sum, n], and a float NaN is the record NaN.    numpy's global generator   *)
(* is a small linear congruential generator whose seed is unknown; its     *)
(* draws are read through coarse outcome tables.  A frame is the sequence  *)
(* of its rows, each row a record of its columns and its index label idx;  *)
(* f \o <<>> is the function f over 1..n as the sequence it is.            *)
(***************************************************************************)
EXTENDS Integers, Sequences, FiniteSets, TLC

\* ------------------------------------------------------------------ bounds
\* numpy's generator starts from one of the seeds 0..MaxSeed
MaxSeed == 1
\* a query table of the pure-function specification has at most MaxRows rows
MaxRows == 3

\* ---------------------------------------------------------------- calendar
NaN == [nan |-> TRUE]

Year == 2024

IsLeapYear(y) == (y % 4 = 0 /\ y % 100 # 0) \/ y % 400 = 0

DaysInMonth(y, m) ==
    IF m = 2 THEN (IF IsLeapYear(y) THEN 29 ELSE 28)
    ELSE IF m \in {4, 6, 9, 11} THEN 30 ELSE 31

RECURSIVE DaysBeforeMonthOf(_, _)
DaysBeforeMonthOf(y, m) ==
    IF m = 1 THEN 0 ELSE DaysBeforeMonthOf(y, m - 1) + DaysInMonth(y, m - 1)

\* the days of Year before each month (a table, built once)
DaysBefore == [m \in 1..12 |-> DaysBeforeMonthOf(Year, m)] \o <<>>

\* pd.to_datetime("2024-mm-dd"): the timestamp of a calendar date
to_datetime(m, d) == DaysBefore[m] + d

\* Timestamp.month
MonthOf(t) ==
    CHOOSE m \in 1..12 :
        DaysBefore[m] < t /\ t <= DaysBefore[m] + DaysInMonth(Year, m)

\* Timestamp.day
DayOf(t) == t - DaysBefore[MonthOf(t)]

MonthNames ==
    << "January", "February", "March", "April", "May", "June",
       "July", "August", "September", "October", "November", "December" >>

\* Timestamp.month_name()
MonthNameOf(t) == MonthNames[MonthOf(t)]

StartDate == to_datetime(1, 1)
EndDate == to_datetime(12, 31)

\* date_range_daily with the end day left out
date_range_daily_exclusive(start, end) ==
    IF end <= start THEN <<>> ELSE [i \in 1..(end - start) |-> start + (i - 1)] \o <<>>

\* pd.date_range(start, end, freq='D'): start, start + 1 day, ..., end
date_range_daily(start, end) ==
    IF end < start THEN <<>> ELSE [i \in 1..(end - start + 1) |-> start + (i - 1)] \o <<>>

\* ------------------------------------------------------ numpy's generator
RngModulus == 32768
RngMultiplier == 20077
RngIncrement == 12345

\* the affine map of k steps of the generator, by repeated squaring
RECURSIVE RngPower(_)
RngPower(k) ==
    IF k = 0 THEN [a |-> 1, c |-> 0]
    ELSE IF k % 2 = 0
         THEN LET h == RngPower(k \div 2)
              IN  [a |-> (h.a * h.a) % RngModulus, c |-> (h.a * h.c + h.c) % RngModulus]
         ELSE LET p == RngPower(k - 1)
              IN  [a |-> (p.a * RngMultiplier) % RngModulus,
                   c |-> (p.c * RngMultiplier + RngIncrement) % RngModulus]

\* the generator's state after k draws from state x
RngJump(x, k) == LET p == RngPower(k) IN (p.a * x + p.c) % RngModulus

\* standard normal draw, in whole standard deviations
NormalTable == << -3, -2, -2, -1, -1, -1, 0, 0, 0, 0, 1, 1, 1, 2, 2, 3 >>
StandardNormal(x) == NormalTable[(x \div 2048) + 1]

\* np.random.rand draw in [0, 1), in tenths
UniformTenths(x) == (x \div 64) % 10

\* standard exponential draw (mean 1), in tenths; 0 is a possible draw
ExponentialTable == << 0, 1, 3, 5, 7, 10, 16, 30 >>
StandardExponential(x) == ExponentialTable[((x \div 512) % 8) + 1]

\* ------------------------------------------------------------- generator
\* round(amp * sin(2 pi i / 365)), sin by Bhaskara's rational approximation
\* on each half period
SineWave(amp, i) ==
    LET x == (2 * i) % 730
        h == IF x <= 365 THEN x ELSE x - 365
        q == h * (365 - h)
        den == 5 * 365 * 365 - 4 * q
        mag == (amp * 16 * q + den \div 2) \div den
    IN  IF x <= 365 THEN mag ELSE 0 - mag

\* Clip that forgets the upper bound
Clip_lower_only(x, lo, hi) == IF x < lo THEN lo ELSE x

\* np.clip
Clip(x, lo, hi) == IF x < lo THEN lo ELSE IF x > hi THEN hi ELSE x

HumidityMin == 20
HumidityMax == 100

\* get_season with Winter shifted by a month
get_season_shifted(month) ==
    IF month \in {1, 2, 3} THEN "Winter"
    ELSE IF month \in {4, 5} THEN "Spring"
    ELSE IF month \in {6, 7, 8} THEN "Summer"
    ELSE "Fall"

get_season(month) ==
    IF month \in {12, 1, 2} THEN "Winter"
    ELSE IF month \in {3, 4, 5} THEN "Spring"
    ELSE IF month \in {6, 7, 8} THEN "Summer"
    ELSE "Fall"

spring_fall_mask(month) == (month >= 3 /\ month <= 5) \/ (month >= 9 /\ month <= 11)

WetGateTenths == 6
DryGateTenths == 8
WetScale == 5
DryScale == 2

\* the rain gate of one day: the Bernoulli stage of lines 27 and 28
WetGate(month, u) == spring_fall_mask(month) /\ u > WetGateTenths
DryGate(month, u) == ~spring_fall_mask(month) /\ u > DryGateTenths

\* arr[mask] = values: the j-th position of the mask takes the j-th value
AssignMasked(arr, positions, values) ==
    [i \in 1..Len(arr) |->
        IF \E j \in 1..Len(positions) : positions[j] = i
        THEN values[CHOOSE j \in 1..Len(positions) : positions[j] = i]
        ELSE arr[i]] \o <<>>

\* generate_weather_data with numpy's generator in state rng: the frame, the
\* uniform draws it used (rain_prob) and the generator's state afterwards
generate_weather_data(rng) ==
    LET dates == date_range_daily(StartDate, EndDate)
        n == Len(dates)
        arange == [i \in 1..n |-> i] \o <<>>
        months == [i \in 1..n |-> MonthOf(dates[i])] \o <<>>
        base_temp == [i \in 1..n |-> 20 + SineWave(15, i - 1)]
        temperatures == [i \in 1..n |-> base_temp[i] + 3 * StandardNormal(RngJump(rng, i))]
        humidity ==
            [i \in 1..n |->
                Clip(60 + SineWave(20, i - 1) + 10 * StandardNormal(RngJump(rng, n + i)),
                     HumidityMin, HumidityMax)]
        rain_prob == [i \in 1..n |-> UniformTenths(RngJump(rng, 2 * n + i))] \o <<>>
        wetDays == SelectSeq(arange, LAMBDA i : WetGate(months[i], rain_prob[i]))
        dryDays == SelectSeq(arange, LAMBDA i : DryGate(months[i], rain_prob[i]))
        wetDraws ==
            [j \in 1..Len(wetDays) |->
                WetScale * StandardExponential(RngJump(rng, 3 * n + j))] \o <<>>
        dryDraws ==
            [j \in 1..Len(dryDays) |->
                DryScale * StandardExponential(RngJump(rng, 3 * n + Len(wetDays) + j))] \o <<>>
        zeros == [i \in 1..n |-> 0] \o <<>>
        rainfall == AssignMasked(AssignMasked(zeros, wetDays, wetDraws), dryDays, dryDraws)
    IN  [ df |-> [i \in 1..n |->
                    [ idx |-> i - 1,
                      date |-> dates[i],
                      temperature |-> temperatures[i],
                      humidity |-> humidity[i],
                      rainfall |-> rainfall[i],
                      month |-> months[i],
                      month_name |-> MonthNames[months[i]],
                      season |-> get_season(months[i]) ]] \o <<>>,
          rain_prob |-> rain_prob,
          rng |-> RngJump(rng, 3 * n + Len(wetDays) + Len(dryDays)) ]

\* ------------------------------------------------------------- processor
\* the rows of a frame whose column col equals key (boolean-mask indexing)
RowsWhere(df, col, key) == SelectSeq(df, LAMBDA r : r[col] = key)

\* sum of column col over rows lo..hi of df
RECURSIVE SumCol(_, _, _, _)
SumCol(df, col, lo, hi) ==
    IF lo > hi THEN 0
    ELSE IF lo = hi THEN df[lo][col]
    ELSE LET mid == (lo + hi) \div 2
         IN  SumCol(df, col, lo, mid) + SumCol(df, col, mid + 1, hi)

\* sum of the products of columns a and b over rows lo..hi of df
RECURSIVE SumProd(_, _, _, _, _)
SumProd(df, a, b, lo, hi) ==
    IF lo > hi THEN 0
    ELSE IF lo = hi THEN df[lo][a] * df[lo][b]
    ELSE LET mid == (lo + hi) \div 2
         IN  SumProd(df, a, b, lo, mid) + SumProd(df, a, b, mid + 1, hi)

\* Series.mean(): the exact fraction sum / n, NaN for no rows
Mean(df, col) ==
    IF Len(df) = 0 THEN NaN ELSE [sum |-> SumCol(df, col, 1, Len(df)), n |-> Len(df)]

\* df.groupby(col)[['temperature', 'humidity', 'rainfall']].mean(): one row per
\* key that occurs in df, in sorted key order (sortedKeys lists the keys sorted)
GroupByMean(df, col, sortedKeys) ==
    LET present == SelectSeq(sortedKeys, LAMBDA k : \E i \in 1..Len(df) : df[i][col] = k)
    IN  [g \in 1..Len(present) |->
            LET rows == RowsWhere(df, col, present[g])
            IN  [ key |-> present[g],
                  temperature |-> Mean(rows, "temperature"),
                  humidity |-> Mean(rows, "humidity"),
                  rainfall |-> Mean(rows, "rainfall") ]] \o <<>>

\* Reindex that leaves the frame as groupby returned it
Reindex_skipped(frame, order) == frame

\* DataFrame.reindex(order): one row per label of order, in that order; a label
\* the frame does not hold gives a row of NaN
Reindex(frame, order) ==
    [i \in 1..Len(order) |->
        IF \E g \in 1..Len(frame) : frame[g].key = order[i]
        THEN frame[CHOOSE g \in 1..Len(frame) : frame[g].key = order[i]]
        ELSE [key |-> order[i], temperature |-> NaN, humidity |-> NaN, rainfall |-> NaN]] \o <<>>

month_order == MonthNames

MonthNamesSorted ==
    << "April", "August", "December", "February", "January", "July",
       "June", "March", "May", "November", "October", "September" >>

get_monthly_averages(df) == Reindex(GroupByMean(df, "month_name", MonthNamesSorted), month_order)

season_order == << "Winter", "Spring", "Summer", "Fall" >>

SeasonsSorted == << "Fall", "Spring", "Summer", "Winter" >>

get_seasonal_averages(df) == Reindex(GroupByMean(df, "season", SeasonsSorted), season_order)

\* the largest / smallest value of column col over rows lo..hi of df
RECURSIVE MaxCol(_, _, _, _)
MaxCol(df, col, lo, hi) ==
    IF lo = hi THEN df[lo][col]
    ELSE LET mid == (lo + hi) \div 2
             l == MaxCol(df, col, lo, mid)
             r == MaxCol(df, col, mid + 1, hi)
         IN  IF l >= r THEN l ELSE r

RECURSIVE MinCol(_, _, _, _)
MinCol(df, col, lo, hi) ==
    IF lo = hi THEN df[lo][col]
    ELSE LET mid == (lo + hi) \div 2
             l == MinCol(df, col, lo, mid)
             r == MinCol(df, col, mid + 1, hi)
         IN  IF l <= r THEN l ELSE r

\* the index label of the last row, in row order, whose col equals v
LastLabel(df, col, v) ==
    df[CHOOSE i \in 1..Len(df) :
            df[i][col] = v /\ \A j \in (i + 1)..Len(df) : df[j][col] # v].idx

\* the index label of the first row, in row order, whose col equals v
FirstLabel(df, col, v) ==
    df[CHOOSE i \in 1..Len(df) :
            df[i][col] = v /\ \A j \in 1..(i - 1) : df[j][col] # v].idx

\* Series.idxmax() / idxmin(): label of the first occurrence of the extreme
idxmax(df, col) == FirstLabel(df, col, MaxCol(df, col, 1, Len(df)))
idxmin(df, col) == FirstLabel(df, col, MinCol(df, col, 1, Len(df)))

\* df.loc[label]
loc(df, label) == df[CHOOSE i \in 1..Len(df) : df[i].idx = label]

\* get_extreme_days: idxmax of an empty Series raises pandas' ValueError
get_extreme_days(df) ==
    IF Len(df) = 0
    THEN [raised |-> "ValueError"]
    ELSE [ raised |-> "none",
           hottest |-> loc(df, idxmax(df, "temperature")),
           coldest |-> loc(df, idxmin(df, "temperature")),
           wettest |-> loc(df, idxmax(df, "rainfall")),
           most_humid |-> loc(df, idxmax(df, "humidity")) ]

CorrColumns == << "temperature", "humidity", "rainfall" >>

\* CorrCell that reports a number whenever there are two rows
CorrCell_unguarded(df, a, b) ==
    LET n == Len(df)
        sa == SumCol(df, a, 1, n)
        sb == SumCol(df, b, 1, n)
        vx == n * SumProd(df, a, a, 1, n) - sa * sa
        vy == n * SumProd(df, b, b, 1, n) - sb * sb
        cov == n * SumProd(df, a, b, 1, n) - sa * sb
    IN  IF n < 2 THEN NaN ELSE [cov |-> cov, vx |-> vx, vy |-> vy]

\* one cell of DataFrame.corr() (Pearson): the covariance and the two
\* variances, each scaled by n * n, standing for cov / sqrt(vx * vy); NaN when
\* the divisor is 0 (no row, one row, or a constant column)
CorrCell(df, a, b) ==
    LET n == Len(df)
        sa == SumCol(df, a, 1, n)
        sb == SumCol(df, b, 1, n)
        vx == n * SumProd(df, a, a, 1, n) - sa * sa
        vy == n * SumProd(df, b, b, 1, n) - sb * sb
        cov == n * SumProd(df, a, b, 1, n) - sa * sb
    IN  IF n = 0 \/ vx = 0 \/ vy = 0 THEN NaN ELSE [cov |-> cov, vx |-> vx, vy |-> vy]

\* DataFrame.corr(): each cell on or below the diagonal is computed and
\* stored at [x, y] and at [y, x]
get_correlation_data(df) ==
    LET K == Len(CorrColumns)
        lower ==
            [x \in 1..K |->
                [y \in 1..x |-> CorrCell(df, CorrColumns[x], CorrColumns[y])] \o <<>>] \o <<>>
    IN  [a \in 1..K |->
            [b \in 1..K |-> IF b <= a THEN lower[a][b] ELSE lower[b][a]] \o <<>>] \o <<>>

IdealTemperature == 23
HumidityComfortMax == 60

Abs(x) == IF x < 0 THEN 0 - x ELSE x
Maximum(a, b) == IF a >= b THEN a ELSE b

\* ComfortTenths without np.maximum(0, .): humidity under 60 lowers the index
ComfortTenths_unfloored(r) ==
    10 * Abs(r.temperature - IdealTemperature) + (r.humidity - HumidityComfortMax)

\* the comfort index of one row, in tenths:
\* 10 * (|temperature - 23| + max(0, humidity - 60) / 10)
ComfortTenths(r) ==
    10 * Abs(r.temperature - IdealTemperature) + Maximum(0, r.humidity - HumidityComfortMax)

\* r with the column comfort_index added
WithComfort(r) ==
    [ idx |-> r.idx, date |-> r.date, temperature |-> r.temperature,
      humidity |-> r.humidity, rainfall |-> r.rainfall, month |-> r.month,
      month_name |-> r.month_name, season |-> r.season,
      comfort_index |-> ComfortTenths(r) ]

\* get_comfort_index: result is the returned df_comfort, arg is the caller's
\* frame as the call leaves it (the column is added to df.copy(), not to df)
get_comfort_index(df) ==
    [ arg |-> df,
      result |-> [i \in 1..Len(df) |-> WithComfort(df[i])] \o <<>> ]

\* ------------------------------------------------------------------- app
AllSeasons == "All Seasons"

\* the options of the season selectbox
SeasonOptions == << AllSeasons, "Winter", "Spring", "Summer", "Fall" >>

\* FilterStep with the end day excluded
FilterStep_end_exclusive(df, dates, season) ==
    LET ranged ==
            IF Len(dates) = 2
            THEN LET start_date == to_datetime(dates[1].month, dates[1].day)
                     end_date == to_datetime(dates[2].month, dates[2].day)
                 IN  SelectSeq(df, LAMBDA r : r.date >= start_date /\ r.date < end_date)
            ELSE df
    IN  IF season # "All Seasons" THEN SelectSeq(ranged, LAMBDA r : r.season = season) ELSE ranged

\* the filter step of the script: the inclusive date mask when the date input
\* holds two dates, then the season mask unless 'All Seasons' is selected
FilterStep(df, dates, season) ==
    LET ranged ==
            IF Len(dates) = 2
            THEN LET start_date == to_datetime(dates[1].month, dates[1].day)
                     end_date == to_datetime(dates[2].month, dates[2].day)
                 IN  SelectSeq(df, LAMBDA r : r.date >= start_date /\ r.date <= end_date)
            ELSE df
    IN  IF season # AllSeasons THEN RowsWhere(ranged, "season", season) ELSE ranged

\* FilterComfortStep with the date mask also applied to a single date, taken
\* as the start of the range
FilterComfortStep_single_date(df, dates, season) ==
    LET ranged ==
            IF Len(dates) >= 1
            THEN LET start_date == to_datetime(dates[1].month, dates[1].day)
                 IN  SelectSeq(df, LAMBDA r : r.date >= start_date)
            ELSE df
    IN  IF season # "All Seasons" THEN SelectSeq(ranged, LAMBDA r : r.season = season) ELSE ranged

\* the filter step of the Comfort Index tab (lines 433-441), on the frame that
\* carries comfort_index: the same two masks, written out a second time
FilterComfortStep(df, dates, season) ==
    LET dated ==
            IF Len(dates) = 2
            THEN LET start_date == to_datetime(dates[1].month, dates[1].day)
                     end_date == to_datetime(dates[2].month, dates[2].day)
                 IN  SelectSeq(df, LAMBDA r : r.date >= start_date /\ r.date <= end_date)
            ELSE df
    IN  IF season # AllSeasons THEN RowsWhere(dated, "season", season) ELSE dated

Date(m, d) == [month |-> m, day |-> d]

\* the default value of the date input, which is also its min_value and max_value
DefaultDateRange == << Date(1, 1), Date(12, 31) >>

\* the days a user picks in the date input
PickDates == { Date(1, 1), Date(1, 2), Date(8, 31), Date(12, 31) }

VARIABLES
    session_state,          \* st.session_state: key -> value
    rng,                    \* the state of numpy's global generator
    rain_prob,              \* the uniform draws of the generation (its local rain_prob)
    date_range,             \* value of the date input: a tuple of 0 to 2 dates
    season_filter,          \* value of the season selectbox
    script_error,           \* the exception that ended the last script run, or "none"
    filtered_data,
    filtered_extreme_days,
    filtered_seasonal_avg,
    corr_matrix,
    filtered_comfort,
    q_df,                   \* a query on its own: the frame handed to it,
    q_dates,                \*   the date tuple of the filter request,
    q_season,               \*   the season of the filter request,
    q_result                \*   and what the calls returned

appVars ==
    << session_state, rng, rain_prob, date_range, season_filter, script_error,
       filtered_data, filtered_extreme_days, filtered_seasonal_avg, corr_matrix,
       filtered_comfort >>

queryVars == << q_df, q_dates, q_season, q_result >>

vars == << appVars, queryVars >>

InSession(key) == key \in DOMAIN session_state

\* InitSession without the session-state guard: every run generates anew
InitSession_unguarded(state, r, draws) ==
    LET g == generate_weather_data(r)
    IN  [ session |-> [ weather_data |-> g.df,
                        monthly_avg |-> <<>>,
                        seasonal_avg |-> <<>>,
                        extreme_days |-> get_extreme_days(g.df),
                        weather_data_comfort |-> get_comfort_index(g.df).result ],
          rng |-> g.rng,
          rain_prob |-> g.rain_prob ]

\* lines 73-79: the first block of the script.  session is the session state
\* it leaves; rng and rain_prob follow the generator when it ran
InitSession(state, r, draws) ==
    IF "weather_data" \notin DOMAIN state
    THEN LET g == generate_weather_data(r)
             comfort == get_comfort_index(g.df)
         IN  [ session |-> [ weather_data |-> comfort.arg,
                             monthly_avg |-> get_monthly_averages(g.df),
                             seasonal_avg |-> get_seasonal_averages(g.df),
                             extreme_days |-> get_extreme_days(g.df),
                             weather_data_comfort |-> comfort.result ],
               rng |-> g.rng,
               rain_prob |-> g.rain_prob ]
    ELSE [ session |-> state, rng |-> r, rain_prob |-> draws ]

\* one run of the script, top to bottom, with the widgets at dates and season
RunScript(dates, season) ==
    \E first \in { InitSession(session_state, rng, rain_prob) } :
    \E data \in { FilterStep(first.session.weather_data, dates, season) } :
    \E extremes \in { get_extreme_days(data) } :
        /\ session_state' = first.session
        /\ rng' = first.rng
        /\ rain_prob' = first.rain_prob
        /\ date_range' = dates
        /\ season_filter' = season
        /\ filtered_data' = data
        /\ filtered_extreme_days' = extremes
        /\ script_error' = extremes.raised
        /\ IF extremes.raised = "none"
           THEN /\ filtered_seasonal_avg' = get_seasonal_averages(data)
                /\ corr_matrix' = get_correlation_data(data)
                /\ filtered_comfort' =
                       FilterComfortStep(first.session.weather_data_comfort, dates, season)
           ELSE \* the exception of line 118 ends the run: the tabs are not reached
                /\ filtered_seasonal_avg' = <<>>
                /\ corr_matrix' = <<>>
                /\ filtered_comfort' = <<>>
        /\ UNCHANGED queryVars

\* no query on its own is under way
QueryIdle ==
    /\ q_df = <<>>
    /\ q_dates = <<>>
    /\ q_season = AllSeasons
    /\ q_result = [done |-> FALSE]

Init ==
    /\ QueryIdle
    /\ session_state = <<>>
    /\ rng \in 0..MaxSeed
    /\ rain_prob = <<>>
    /\ date_range = DefaultDateRange
    /\ season_filter = AllSeasons
    /\ script_error = "none"
    /\ filtered_data = <<>>
    /\ filtered_extreme_days = [raised |-> "none"]
    /\ filtered_seasonal_avg = <<>>
    /\ corr_matrix = <<>>
    /\ filtered_comfort = <<>>

\* the page is opened: the first run of the script in the session
FirstRun ==
    /\ ~InSession("weather_data")
    /\ RunScript(date_range, season_filter)

\* a click in the date input: the first click of a range leaves one date, the
\* second completes the pair
PickDate(d) ==
    /\ InSession("weather_data")
    /\ RunScript(IF Len(date_range) = 1 THEN << date_range[1], d >> ELSE << d >>,
                 season_filter)

\* the date input is cleared
ClearDates ==
    /\ InSession("weather_data")
    /\ RunScript(<<>>, season_filter)

SelectSeason(s) ==
    /\ InSession("weather_data")
    /\ RunScript(date_range, s)

\* any other interaction (a tab's metric selectbox, the slider, the column
\* multiselect, the download button) reruns the script with the same filters
Rerun ==
    /\ InSession("weather_data")
    /\ RunScript(date_range, season_filter)

Next ==
    \/ FirstRun
    \/ \E d \in PickDates : PickDate(d)
    \/ ClearDates
    \/ \E i \in 1..Len(SeasonOptions) : SelectSeason(SeasonOptions[i])
    \/ Rerun

Spec == Init /\ [][Next]_vars

\* ------------------------------------------- the queries on their own
\* The processor's functions and the filter step applied to any frame and any
\* request, outside a session: the frame is up to MaxRows rows of a generated
\* dataset in any order, the request any date tuple and any season name.

\* the rows of the dataset of seed 0 that the frames are made of: two Winter
\* days, one Spring, one Summer and one Fall day
PoolDays == { to_datetime(1, 1), to_datetime(1, 2), to_datetime(4, 20),
              to_datetime(7, 4), to_datetime(10, 9) }

\* a row of a weather frame dated month m, day d, with temperature t and
\* humidity h on a dry day
SampleRow(m, d, t, h) ==
    [ idx |-> to_datetime(m, d) - 1,
      date |-> to_datetime(m, d),
      temperature |-> t,
      humidity |-> h,
      rainfall |-> 0,
      month |-> m,
      month_name |-> MonthNames[m],
      season |-> get_season(m) ]

\* two days with round readings: the ideal day (23 degrees at 60 %) and a hot
\* humid day (33 degrees at 80 %)
ComfortSamples == { SampleRow(5, 10, 23, 60), SampleRow(7, 5, 33, 80) }

QueryPool ==
    LET df == generate_weather_data(0).df
    IN  { df[i] : i \in { j \in 1..Len(df) : df[j].date \in PoolDays } }
            \cup ComfortSamples

\* frames of up to MaxRows different rows of the pool, in any row order
QueryFrames ==
    UNION { { f \o <<>> : f \in { g \in [1..n -> QueryPool] :
                                    \A i, j \in 1..n : i # j => g[i] # g[j] } } :
            n \in 0..MaxRows }

QueryDates == { Date(1, 2), Date(7, 4) }

\* date tuples of a request: none, one date, or a pair in either order
QueryDateTuples ==
    { <<>> } \cup { << d >> : d \in QueryDates }
             \cup { << d, e >> : d \in QueryDates, e \in QueryDates }

\* season names of a request: the five options and a name outside them
QuerySeasons == { SeasonOptions[i] : i \in 1..Len(SeasonOptions) } \cup { "Monsoon" }

\* the filter step on a request: lines 107-115 compare and index, nothing in
\* them checks the request or raises
FilterOutcome(df, dates, season) ==
    [ raised |-> "none", frame |-> FilterStep(df, dates, season) ]

InitQuery ==
    /\ session_state = <<>>
    /\ rng = 0
    /\ rain_prob = <<>>
    /\ date_range = DefaultDateRange
    /\ season_filter = AllSeasons
    /\ script_error = "none"
    /\ filtered_data = <<>>
    /\ filtered_extreme_days = [raised |-> "none"]
    /\ filtered_seasonal_avg = <<>>
    /\ corr_matrix = <<>>
    /\ filtered_comfort = <<>>
    /\ q_df \in QueryFrames
    /\ q_dates \in QueryDateTuples
    /\ q_season \in QuerySeasons
    /\ q_result = [done |-> FALSE]

\* the calls are made on the frame and the request
Query ==
    /\ ~q_result.done
    /\ q_result' = [ done |-> TRUE,
                     filter |-> FilterOutcome(q_df, q_dates, q_season),
                     seasonal_avg |-> get_seasonal_averages(q_df),
                     extreme_days |-> get_extreme_days(q_df),
                     correlation |-> get_correlation_data(q_df),
                     comfort |-> get_comfort_index(q_df) ]
    /\ UNCHANGED << q_df, q_dates, q_season >>
    /\ UNCHANGED appVars

NextQuery == Query

SpecQuery == InitQuery /\ [][NextQuery]_vars

\* ---------------------------------------------------------------- claims
\* the base dataset of the session, once the first run has stored it
Generated == InSession("weather_data")
Base == session_state.weather_data

\* calendar date (month, day) a is on or before b
DateLE(a, b) == a.month < b.month \/ (a.month = b.month /\ a.day <= b.day)

\* the calendar date of a timestamp
CalendarDate(t) == Date(MonthOf(t), DayOf(t))

\* C1: the generated dataset has exactly 366 rows, the first dated 2024-01-01,
\* the last 2024-12-31, and each row is dated one day after the row before it.
C1_YearOfDays ==
    Generated =>
        /\ Len(Base) = 366
        /\ CalendarDate(Base[1].date) = Date(1, 1)
        /\ CalendarDate(Base[Len(Base)].date) = Date(12, 31)
        /\ \A i \in 2..Len(Base) :
              /\ Base[i].date = Base[i - 1].date + 1
              /\ LET p == CalendarDate(Base[i - 1].date)
                     c == CalendarDate(Base[i].date)
                 IN  \/ c.month = p.month /\ c.day = p.day + 1
                     \/ c.month = p.month + 1 /\ c.day = 1 /\ p.day = DaysInMonth(Year, p.month)

\* the dataset is in the session and holds the leap day as its 60th row
C1_Witness ==
    /\ Generated
    /\ Len(Base) = 366
    /\ CalendarDate(Base[60].date) = Date(2, 29)

\* C2: the first run stores the generated frame as the base dataset, and no
\* later run of the script, whatever the interaction, replaces or changes it.
C2_BaseDatasetKept ==
    [][ /\ (~Generated /\ InSession("weather_data")') =>
              session_state'.weather_data = generate_weather_data(rng).df
        /\ Generated =>
              /\ InSession("weather_data")'
              /\ session_state'.weather_data = Base ]_vars

\* the session holds a dataset, the filters were changed from their defaults and
\* the comfort tab was rendered on a filtered subset
C2_Witness ==
    /\ Generated
    /\ date_range # DefaultDateRange
    /\ season_filter # AllSeasons
    /\ script_error = "none"
    /\ Len(filtered_comfort) > 0
    /\ Len(filtered_data) < Len(Base)
    /\ "comfort_index" \notin DOMAIN Base[1]
    /\ "comfort_index" \in DOMAIN session_state.weather_data_comfort[1]

\* the date input holds a start and an end with the start on or before the end
OrderedRange == Len(date_range) = 2 /\ DateLE(date_range[1], date_range[2])

\* C3 (as claimed): the extreme-day query on a zero-row subset raises
\* EmptyDatasetError.
C3_EmptyDatasetError ==
    (Generated /\ OrderedRange /\ Len(filtered_data) = 0) =>
        filtered_extreme_days.raised = "EmptyDatasetError"

\* row r passes the filter of the current selection: its calendar date lies
\* in the selected range, both ends included, when two dates are selected, and
\* its season is the selected one unless 'All Seasons' is selected
Selected(r) ==
    /\ Len(date_range) = 2 =>
          /\ DateLE(date_range[1], CalendarDate(r.date))
          /\ DateLE(CalendarDate(r.date), date_range[2])
    /\ season_filter # AllSeasons => r.season = season_filter

\* C5: the filter step returns exactly the selected rows of the dataset, in
\* their original order; the full range with 'All Seasons' returns the whole
\* dataset; filtering the result again returns the same subset.
C5_FilterExact ==
    Generated =>
        /\ \A j \in 1..Len(filtered_data) :
              /\ filtered_data[j] = Base[filtered_data[j].idx + 1]
              /\ Selected(filtered_data[j])
              /\ j > 1 => filtered_data[j - 1].idx < filtered_data[j].idx
        /\ Len(filtered_data) = Cardinality({i \in 1..Len(Base) : Selected(Base[i])})
        /\ (date_range = DefaultDateRange /\ season_filter = AllSeasons) =>
              filtered_data = Base
        /\ FilterStep(filtered_data, date_range, season_filter) = filtered_data

\* a range that starts after the first day of the year and ends before its last
\* day kept the rows of its two end days and dropped rows outside it
C5_Witness ==
    /\ Generated
    /\ OrderedRange
    /\ date_range[1] # DefaultDateRange[1]
    /\ date_range[2] # DefaultDateRange[2]
    /\ Len(filtered_data) > 2
    /\ Len(filtered_data) < Len(Base)
    /\ CalendarDate(filtered_data[1].date) = date_range[1]
    /\ CalendarDate(filtered_data[Len(filtered_data)].date) = date_range[2]

\* column col has the same value in every row of df
ConstantColumn(df, col) == \A i \in 1..Len(df) : df[i][col] = df[1][col]

\* a correlation cell that is exactly 1.0
IsOne(cell) == cell # NaN /\ cell.cov > 0 /\ cell.cov = cell.vx /\ cell.cov = cell.vy

\* the correlation tab was rendered on a subset of at least two rows
CorrelationShown == Generated /\ script_error = "none" /\ Len(filtered_data) >= 2

EarliestExtreme(df, r, col, sign) ==
    /\ \E i \in 1..Len(df) : df[i] = r
    /\ \A i \in 1..Len(df) :
          /\ sign * df[i][col] <= sign * r[col]
          /\ df[i][col] = r[col] => r.date <= df[i].date

\* C8: for a non-empty subset each of the four extremes is the full record of
\* the earliest-dated row attaining it; a single row is returned four times.
C8_EarliestExtremeRow ==
    (Generated /\ Len(filtered_data) > 0) =>
        /\ filtered_extreme_days.raised = "none"
        /\ EarliestExtreme(filtered_data, filtered_extreme_days.hottest, "temperature", 1)
        /\ EarliestExtreme(filtered_data, filtered_extreme_days.coldest, "temperature", -1)
        /\ EarliestExtreme(filtered_data, filtered_extreme_days.wettest, "rainfall", 1)
        /\ EarliestExtreme(filtered_data, filtered_extreme_days.most_humid, "humidity", 1)
        /\ Len(filtered_data) = 1 =>
              \A k \in {"hottest", "coldest", "wettest", "most_humid"} :
                  filtered_extreme_days[k] = filtered_data[1]

\* several rows of the subset share the largest humidity, and the first of them
\* was returned
C8_Witness ==
    /\ Generated
    /\ Len(filtered_data) > 1
    /\ filtered_extreme_days.raised = "none"
    /\ \E i \in 1..Len(filtered_data) :
          /\ filtered_data[i].humidity = filtered_extreme_days.most_humid.humidity
          /\ filtered_data[i].date > filtered_extreme_days.most_humid.date

\* the season the claim gives for a month
ClaimedSeason(m) ==
    IF m \in {12, 1, 2} THEN "Winter"
    ELSE IF m \in {3, 4, 5} THEN "Spring"
    ELSE IF m \in {6, 7, 8} THEN "Summer"
    ELSE "Fall"

\* C9: in every generated row month and month_name are those of the date and
\* season is the claimed image of the month; the wet-season months of the
\* generator are exactly the Spring and Fall months.
C9_SeasonOfMonth ==
    Generated =>
        /\ \A i \in 1..Len(Base) :
              /\ Base[i].month = CalendarDate(Base[i].date).month
              /\ Base[i].month_name = MonthNames[CalendarDate(Base[i].date).month]
              /\ Base[i].season = ClaimedSeason(Base[i].month)
        /\ \A m \in 1..12 :
              spring_fall_mask(m) <=> get_season(m) \in {"Spring", "Fall"}

\* the dataset holds the 4th of July as a Summer row and the 1st of December
\* as a Winter row
C9_Witness ==
    /\ Generated
    /\ \E i \in 1..Len(Base) :
          /\ CalendarDate(Base[i].date) = Date(7, 4)
          /\ Base[i].season = "Summer" /\ Base[i].month_name = "July"
    /\ \E i \in 1..Len(Base) :
          /\ CalendarDate(Base[i].date) = Date(12, 1)
          /\ Base[i].season = "Winter"

\* the uniform draw u (in tenths) of a day of month m passed the day's gate:
\* above 0.6 in a Spring or Fall month, above 0.8 in any other month
GatePassed(m, u) == IF ClaimedSeason(m) \in {"Spring", "Fall"} THEN u > 6 ELSE u > 8

\* C10: in every generated row humidity lies in [20, 100] and rainfall is not
\* negative; rainfall is positive only on a day whose draw passed its gate and
\* is 0 on every other day.
C10_HumidityAndRainRanges ==
    Generated =>
        \A i \in 1..Len(Base) :
            /\ Base[i].humidity >= 20 /\ Base[i].humidity <= 100
            /\ Base[i].rainfall >= 0
            /\ Base[i].rainfall > 0 => GatePassed(Base[i].month, rain_prob[i])
            /\ ~GatePassed(Base[i].month, rain_prob[i]) => Base[i].rainfall = 0

\* the dataset holds a day clipped to 100, a day clipped to 20, a rainy day in
\* a wet month and one in a dry month, and a dry-month day whose draw of 0.7
\* or 0.8 would have passed the wet gate and stayed dry
C10_Witness ==
    /\ Generated
    /\ \E i \in 1..Len(Base) : Base[i].humidity = 100
    /\ \E i \in 1..Len(Base) : Base[i].humidity = 20
    /\ \E i \in 1..Len(Base) : Base[i].rainfall > 0 /\ spring_fall_mask(Base[i].month)
    /\ \E i \in 1..Len(Base) : Base[i].rainfall > 0 /\ ~spring_fall_mask(Base[i].month)
    /\ \E i \in 1..Len(Base) :
          /\ ~spring_fall_mask(Base[i].month)
          /\ rain_prob[i] \in {7, 8}
          /\ Base[i].rainfall = 0

\* C4 (as claimed): a request whose start is after its end is answered with
\* InvalidDateRangeError and a season outside the five options with
\* InvalidSeasonError.
C4_InvalidRequestRaises ==
    q_result.done =>
        /\ (Len(q_dates) = 2 /\ ~DateLE(q_dates[1], q_dates[2])) =>
              q_result.filter.raised = "InvalidDateRangeError"
        /\ (\A i \in 1..Len(SeasonOptions) : q_season # SeasonOptions[i]) =>
              q_result.filter.raised = "InvalidSeasonError"

\* the sum of column col over the rows of df at the positions I
RECURSIVE SumAt(_, _, _)
SumAt(df, col, I) ==
    IF I = {} THEN 0
    ELSE LET i == CHOOSE x \in I : TRUE IN df[i][col] + SumAt(df, col, I \ {i})

\* the mean of column col over the rows of df of one season, NaN for no row
SeasonMean(df, season, col) ==
    LET I == { i \in 1..Len(df) : df[i].season = season }
    IN  IF I = {} THEN NaN ELSE [sum |-> SumAt(df, col, I), n |-> Cardinality(I)]

\* C7: for a frame in any row order, also one that lacks some seasons,
\* get_seasonal_averages returns exactly 4 rows, Winter, Spring, Summer, Fall
\* in this order, each with the means of the frame's rows of that season.
C7_FourSeasonRows ==
    q_result.done =>
        /\ Len(q_result.seasonal_avg) = 4
        /\ \A k \in 1..4 :
              LET row == q_result.seasonal_avg[k]
                  season == << "Winter", "Spring", "Summer", "Fall" >>[k]
              IN  /\ row.key = season
                  /\ row.temperature = SeasonMean(q_df, season, "temperature")
                  /\ row.humidity = SeasonMean(q_df, season, "humidity")
                  /\ row.rainfall = SeasonMean(q_df, season, "rainfall")

\* a frame whose rows are not in date order, with two Winter rows, a Fall row
\* and no Spring or Summer row, was averaged
C7_Witness ==
    /\ q_result.done
    /\ Len(q_df) = 3
    /\ q_df[1].date > q_df[2].date
    /\ q_df[1].season = "Fall"
    /\ q_result.seasonal_avg[1].temperature # NaN
    /\ q_result.seasonal_avg[1].temperature.n = 2
    /\ q_result.seasonal_avg[2].temperature = NaN
    /\ q_result.seasonal_avg[4].temperature.n = 1

\* the deviation of a temperature from 23 degrees, by cases
Deviation(t) == IF t >= 23 THEN t - 23 ELSE 23 - t

\* the excess of a humidity over 60 %, by cases
Excess(h) == IF h > 60 THEN h - 60 ELSE 0

\* C11: get_comfort_index returns the rows of its argument, in their order and
\* with their columns unchanged, each with a comfort_index equal to
\* |temperature - 23| + max(0, humidity - 60) / 10 (here in tenths): 0 at 23
\* degrees and 60 %, 12 at 33 degrees and 80 %, never negative, and equal to the
\* temperature deviation alone when humidity is at or below 60 %.
C11_ComfortIndexFormula ==
    q_result.done =>
        LET out == q_result.comfort.result
        IN  /\ Len(out) = Len(q_df)
            /\ \A i \in 1..Len(q_df) :
                  LET t == q_df[i].temperature
                      h == q_df[i].humidity
                      c == out[i].comfort_index
                  IN  /\ out[i].idx = q_df[i].idx
                      /\ out[i].temperature = t
                      /\ out[i].humidity = h
                      /\ c = 10 * Deviation(t) + Excess(h)
                      /\ (t = 23 /\ h = 60) => c = 0
                      /\ (t = 33 /\ h = 80) => c = 120
                      /\ c >= 0
                      /\ h <= 60 => c = 10 * Deviation(t)

\* the index was computed on a frame holding the ideal day, the hot humid day
\* and a day off 23 degrees whose humidity is under 60 %
C11_Witness ==
    /\ q_result.done
    /\ \E i, j, k \in 1..Len(q_df) :
          /\ q_df[i].temperature = 23 /\ q_df[i].humidity = 60
          /\ q_result.comfort.result[i].comfort_index = 0
          /\ q_df[j].temperature = 33 /\ q_df[j].humidity = 80
          /\ q_result.comfort.result[j].comfort_index = 120
          /\ q_df[k].temperature # 23 /\ q_df[k].humidity < 60
          /\ q_result.comfort.result[k].comfort_index > 0

\* the dates of a frame, in row order
DatesOf(df) == [i \in 1..Len(df) |-> df[i].date]

\* the season selection keeps row r
SeasonKept(r) == season_filter = AllSeasons \/ r.season = season_filter

\* C12: after every run of the script that reaches the Comfort Index tab, the
\* tab's filtered table holds the same dates in the same order as the main
\* filtered table; and while the date input holds fewer than two dates, both
\* tables are their whole base tables narrowed by the season selection only.
C12_ComfortFilterAgrees ==
    (Generated /\ script_error = "none") =>
        /\ DatesOf(filtered_comfort) = DatesOf(filtered_data)
        /\ Len(date_range) < 2 =>
              /\ filtered_data = SelectSeq(Base, SeasonKept)
              /\ filtered_comfort =
                     SelectSeq(session_state.weather_data_comfort, SeasonKept)

\* a range is being picked: the date input holds one date later than the first
\* row's, a season is selected, and the comfort tab shows that season's rows,
\* among them rows before the picked date
C12_Witness ==
    /\ Generated
    /\ script_error = "none"
    /\ Len(date_range) = 1
    /\ season_filter # AllSeasons
    /\ Len(filtered_comfort) > 0
    /\ Len(filtered_comfort) < Len(Base)
    /\ "comfort_index" \in DOMAIN filtered_comfort[1]
    /\ filtered_comfort[1].date < to_datetime(date_range[1].month, date_range[1].day)

====
